---- MODULE Spec2Model ----
(***************************************************************************)
(* Conversation cache of spanish_tutor.py: ConversationManager (a          *)
(* defaultdict of per-user turn lists with an expiry sweep on every        *)
(* write), generate_gemini_response, and the two message handlers.         *)
(*                                                                         *)
(* Three specifications over the same state:                               *)
(*   StoreSpec  one caller invoking the methods of ConversationManager,    *)
(*              each call running to completion;                           *)
(*   SeqSpec    the message handlers run by one worker, one message at a   *)
(*              time, at the granularity of the statements that touch      *)
(*              the shared dictionary;                                     *)
(*   Spec       the same handler steps run by several workers whose        *)
(*              steps interleave (the store takes no lock).                *)
(***************************************************************************)
EXTENDS Integers, Sequences, FiniteSets, TLC

(***************************************************************************)
(* Bounds of the model.                                                    *)
(***************************************************************************)
MaxTime == 30        \* the clock stops advancing here (minutes)
MaxCalls == 3        \* method calls made by the caller of StoreSpec
MaxMsgs == 2         \* inbound messages dispatched to the handlers
NumThreads == 2      \* workers that run handlers

Users == {"u1", "u2"}
Roles == {"user", "assistant"}
Threads == 1 .. NumThreads
SeqThreads == {1}
TickSteps == {15}              \* the clock advances in steps of 15 minutes
ExpiryChoices == {15, 30}      \* expiry_minutes given at construction
DefaultExpiryMinutes == 30     \* ConversationManager() default

(***************************************************************************)
(* Texts are sequences of characters, so that str.lower() is a conversion  *)
(* that acts character by character.                                       *)
(***************************************************************************)
UpperChars == <<"A","B","C","D","E","F","G","H","I","J","K","L","M",
                "N","O","P","Q","R","S","T","U","V","W","X","Y","Z">>
LowerChars == <<"a","b","c","d","e","f","g","h","i","j","k","l","m",
                "n","o","p","q","r","s","t","u","v","w","x","y","z">>

LowerChar(c) ==
    IF \E i \in DOMAIN UpperChars : UpperChars[i] = c
    THEN LowerChars[CHOOSE i \in DOMAIN UpperChars : UpperChars[i] = c]
    ELSE c

Lower_identity(s) == s

Lower(s) == [i \in DOMAIN s |-> LowerChar(s[i])]

ClearCommand == <<"c","l","e","a","r"," ","h","i","s","t","o","r","y">>
ClearUpper == <<"C","L","E","A","R"," ","H","I","S","T","O","R","Y">>
ClearMixed == <<"C","l","e","a","r"," ","H","i","s","t","o","r","y">>
Hola == <<"H","o","l","a">>
AudioPlaceholder == <<"A","u","d","i","o">>
ResponseText == <<"S","i">>
NoText == <<>>

TextInputs == {ClearCommand, ClearUpper, ClearMixed, Hola}
Contents == {Hola, ResponseText}

VARIABLES
    keys,            \* keys of self.conversations, in insertion order
    conv,            \* self.conversations[u]; <<>> for a user that is no key
    expiry_minutes,  \* self.expiry_minutes
    clock,           \* datetime.now(), in minutes
    th,              \* per worker: position in the handler and its locals
    nextMsg,         \* ghost: number of messages dispatched so far
    nCalls,          \* ghost: number of method calls made in StoreSpec
    log,             \* ghost: per user, the turns whose add_message returned
    cleared,         \* ghost: users for which clear_history has run
    quiet,           \* ghost: users cleared and not appended to since
    sweepTime,       \* ghost: current_time of the last _clean_expired run
    lastOp           \* ghost: the last call made by the caller of StoreSpec

vars == <<keys, conv, expiry_minutes, clock, th, nextMsg, nCalls, log,
          cleared, quiet, sweepTime, lastOp>>

(***************************************************************************)
(* The dictionary: defaultdict(list).                                      *)
(***************************************************************************)
InKeys(ks, u) == \E i \in DOMAIN ks : ks[i] = u

\* A plain dict: a missing key raises KeyError and is not created.
GetItem_dict(ks, u) == [keys |-> ks, raised |-> ~InKeys(ks, u)]

\* self.conversations[u]: __missing__ creates the key with an empty list.
GetItem(ks, u) ==
    [keys |-> IF InKeys(ks, u) THEN ks ELSE Append(ks, u), raised |-> FALSE]

\* del self.conversations[u]: KeyError when the key is missing.
DelItem(ks, u) ==
    [keys |-> SelectSeq(ks, LAMBDA k : k # u), raised |-> ~InKeys(ks, u)]

ClearGuard_always(ks, u) == TRUE

\* if user_id in self.conversations
ClearGuard(ks, u) == InKeys(ks, u)

(***************************************************************************)
(* Turns and the pure parts of the methods.                                *)
(***************************************************************************)
\* call is a ghost field: the call (StoreSpec) or the message (handlers) that
\* appended the turn; with the role it identifies the turn.
Turn(role, content, timestamp, call) ==
    [role |-> role, content |-> content, timestamp |-> timestamp,
     call |-> call]

Unexpired_inclusive(msgs, current_time) ==
    SelectSeq(msgs, LAMBDA m : current_time - m.timestamp <= expiry_minutes)

\* the list comprehension of _clean_expired
Unexpired(msgs, current_time) ==
    SelectSeq(msgs, LAMBDA m : current_time - m.timestamp < expiry_minutes)

Strip_leaky(msgs) ==
    [i \in DOMAIN msgs |->
        [role |-> msgs[i].role, content |-> msgs[i].content,
         timestamp |-> msgs[i].timestamp]]

\* the list comprehension of get_history
Strip(msgs) ==
    [i \in DOMAIN msgs |-> [role |-> msgs[i].role, content |-> msgs[i].content]]

\* what get_history(u) returns in the current state
get_history(u) == Strip(conv[u])

\* _clean_expired run to completion at time now
CleanAll(cv, ks, now) ==
    [u \in Users |-> IF InKeys(ks, u) THEN Unexpired(cv[u], now) ELSE cv[u]]

(***************************************************************************)
(* Initial state: module level, conversation_manager constructed.          *)
(***************************************************************************)
Idle ==
    [pc |-> "idle", user_id |-> "none", text |-> NoText, file |-> FALSE,
     history |-> <<>>, response |-> "none", role |-> "none",
     todo |-> <<>>, current_time |-> 0, filtered |-> <<>>,
     ref |-> "none", timestamp |-> 0, reply |-> "none",
     backend |-> FALSE, failed |-> FALSE, adds |-> 0, msg |-> 0]

NoOp == [op |-> "none", user |-> "none", known |-> FALSE, raised |-> FALSE,
         ret |-> <<>>]

InitCommon ==
    /\ keys = <<>>
    /\ conv = [u \in Users |-> <<>>]
    /\ clock = 0
    /\ th = [t \in Threads |-> Idle]
    /\ nextMsg = 0
    /\ nCalls = 0
    /\ log = [u \in Users |-> <<>>]
    /\ cleared = {}
    /\ quiet = {}
    /\ sweepTime = 0
    /\ lastOp = NoOp

\* ConversationManager(expiry_minutes=...)
StoreInit == InitCommon /\ expiry_minutes \in ExpiryChoices

\* conversation_manager = ConversationManager()
Init == InitCommon /\ expiry_minutes = DefaultExpiryMinutes

Tick ==
    /\ \E d \in TickSteps : clock + d <= MaxTime /\ clock' = clock + d
    /\ UNCHANGED <<keys, conv, expiry_minutes, th, nextMsg, nCalls, log,
                   cleared, quiet, sweepTime, lastOp>>

(***************************************************************************)
(* StoreSpec: the methods of ConversationManager, each run to completion.  *)
(***************************************************************************)
add_message(user_id, role, content) ==
    LET swept == CleanAll(conv, keys, clock)
        got == GetItem(keys, user_id)
        turn == Turn(role, content, clock, nCalls)
    IN  /\ nCalls < MaxCalls
        /\ nCalls' = nCalls + 1
        /\ IF got.raised
           THEN /\ conv' = swept
                /\ UNCHANGED <<keys, log>>
           ELSE /\ keys' = got.keys
                /\ conv' = [swept EXCEPT ![user_id] = Append(@, turn)]
                /\ log' = [log EXCEPT ![user_id] = Append(@, turn)]
        /\ sweepTime' = clock
        /\ lastOp' = [op |-> "add", user |-> user_id,
                      known |-> InKeys(keys, user_id), raised |-> got.raised,
                      ret |-> <<>>]
        /\ UNCHANGED <<expiry_minutes, clock, th, nextMsg, cleared, quiet>>

GetHistory(user_id) ==
    LET got == GetItem(keys, user_id)
    IN  /\ nCalls < MaxCalls
        /\ nCalls' = nCalls + 1
        /\ keys' = got.keys
        /\ lastOp' = [op |-> "get", user |-> user_id,
                      known |-> InKeys(keys, user_id), raised |-> got.raised,
                      ret |-> IF got.raised THEN <<>> ELSE get_history(user_id)]
        /\ UNCHANGED <<conv, expiry_minutes, clock, th, nextMsg, log,
                       cleared, quiet, sweepTime>>

clear_history(user_id) ==
    LET del == DelItem(keys, user_id)
    IN  /\ nCalls < MaxCalls
        /\ nCalls' = nCalls + 1
        /\ IF ClearGuard(keys, user_id)
           THEN /\ keys' = del.keys
                /\ conv' = IF del.raised THEN conv
                           ELSE [conv EXCEPT ![user_id] = <<>>]
                /\ lastOp' = [op |-> "clear", user |-> user_id,
                              known |-> InKeys(keys, user_id),
                              raised |-> del.raised, ret |-> <<>>]
           ELSE /\ UNCHANGED <<keys, conv>>
                /\ lastOp' = [op |-> "clear", user |-> user_id,
                              known |-> FALSE, raised |-> FALSE,
                              ret |-> <<>>]
        /\ cleared' = cleared \cup {user_id}
        /\ UNCHANGED <<expiry_minutes, clock, th, nextMsg, log,
                       quiet, sweepTime>>

StoreNext ==
    \/ \E u \in Users, r \in Roles, c \in Contents : add_message(u, r, c)
    \/ \E u \in Users : GetHistory(u)
    \/ \E u \in Users : clear_history(u)
    \/ Tick

StoreSpec == StoreInit /\ [][StoreNext]_vars

(***************************************************************************)
(* The handlers, statement by statement.  th[t] holds the position of      *)
(* worker t and the locals of the frames it is in.  A step that only       *)
(* touches locals or an external service is taken together with the        *)
(* access to the shared dictionary that precedes it.                       *)
(*                                                                         *)
(* A worker that has evaluated self.conversations[user_id] holds a         *)
(* reference to a list object (ref = "live").  When another worker rebinds *)
(* or deletes that key, the reference no longer is the list in the         *)
(* dictionary (ref = "stale"): an append through it is not seen by anyone. *)
(***************************************************************************)
Set(t, rec) == [th EXCEPT ![t] = rec]

Invalidate(thr, u, t) ==
    [s \in Threads |->
        IF s # t /\ thr[s].ref = "live" /\ thr[s].user_id = u
        THEN [thr[s] EXCEPT !.ref = "stale"]
        ELSE thr[s]]

\* handle_text up to the branch on the command
handle_text(t) ==
    /\ th[t].pc = "idle"
    /\ nextMsg < MaxMsgs
    /\ nextMsg' = nextMsg + 1
    /\ \E u \in Users, text \in TextInputs :
          th' = Set(t, [Idle EXCEPT
                    !.user_id = u, !.text = text, !.msg = nextMsg,
                    !.pc = IF Lower(text) = ClearCommand
                           THEN "clear_check" ELSE "get_history"])
    /\ UNCHANGED <<keys, conv, expiry_minutes, clock, nCalls, log,
                   cleared, quiet, sweepTime, lastOp>>

\* handle_audio up to the call of generate_gemini_response
handle_audio(t) ==
    /\ th[t].pc = "idle"
    /\ nextMsg < MaxMsgs
    /\ nextMsg' = nextMsg + 1
    /\ \E u \in Users, uploaded \in BOOLEAN :
          th' = Set(t, IF uploaded
                       THEN [Idle EXCEPT !.user_id = u, !.file = TRUE, !.msg = nextMsg,
                                !.text = AudioPlaceholder,
                                !.pc = "get_history"]
                       ELSE [Idle EXCEPT !.user_id = u, !.reply = "error",
                                !.msg = nextMsg,
                                !.pc = "done"])
    /\ UNCHANGED <<keys, conv, expiry_minutes, clock, nCalls, log,
                   cleared, quiet, sweepTime, lastOp>>

\* clear_history: the membership test; when it fails the handler replies
ClearCheck(t) ==
    LET u == th[t].user_id
    IN  /\ th[t].pc = "clear_check"
        /\ IF ClearGuard(keys, u)
           THEN /\ th' = Set(t, [th[t] EXCEPT !.pc = "clear_del"])
                /\ UNCHANGED <<cleared, quiet>>
           ELSE /\ th' = Set(t, [th[t] EXCEPT !.pc = "done", !.reply = "ack"])
                /\ cleared' = cleared \cup {u}
                /\ quiet' = quiet \cup {u}
        /\ UNCHANGED <<keys, conv, expiry_minutes, clock, nextMsg,
                       nCalls, log, sweepTime, lastOp>>

\* clear_history: the del statement, then the reply of the handler
ClearDel(t) ==
    LET u == th[t].user_id
        del == DelItem(keys, u)
    IN  /\ th[t].pc = "clear_del"
        /\ IF del.raised
           THEN /\ th' = Set(t, [th[t] EXCEPT !.pc = "done", !.reply = "error"])
                /\ UNCHANGED <<keys, conv, cleared, quiet>>
           ELSE /\ keys' = del.keys
                /\ conv' = [conv EXCEPT ![u] = <<>>]
                /\ th' = [Invalidate(th, u, t) EXCEPT
                             ![t] = [th[t] EXCEPT !.pc = "done", !.reply = "ack"]]
                /\ cleared' = cleared \cup {u}
                /\ quiet' = quiet \cup {u}
        /\ UNCHANGED <<expiry_minutes, clock, nextMsg, nCalls, log,
                       sweepTime, lastOp>>

BackendOutcomes == {"raise", "ok", "notext"}

\* generate_gemini_response: get_history, the prompt, generate_content
Generate(t) ==
    LET u == th[t].user_id
        got == GetItem(keys, u)
    IN  /\ th[t].pc = "get_history"
        /\ keys' = got.keys
        /\ \E outcome \in BackendOutcomes :
              th' = Set(t, IF outcome = "raise"
                           THEN [th[t] EXCEPT !.history = get_history(u),
                                    !.backend = TRUE, !.failed = TRUE,
                                    !.reply = "error", !.pc = "done"]
                           ELSE [th[t] EXCEPT !.history = get_history(u),
                                    !.backend = TRUE, !.response = outcome,
                                    !.role = "user", !.pc = "clean_begin"])
        /\ UNCHANGED <<conv, expiry_minutes, clock, nextMsg, nCalls,
                       log, cleared, quiet, sweepTime, lastOp>>

\* _clean_expired: current_time and the snapshot of the keys
CleanBegin(t) ==
    /\ th[t].pc = "clean_begin"
    /\ th' = Set(t, IF keys = <<>>
                     THEN [th[t] EXCEPT !.pc = "append_load"]
                     ELSE [th[t] EXCEPT !.current_time = clock, !.todo = keys,
                              !.pc = "clean_load"])
    /\ sweepTime' = IF keys = <<>> THEN clock ELSE sweepTime
    /\ UNCHANGED <<keys, conv, expiry_minutes, clock, nextMsg, nCalls,
                   log, cleared, quiet, lastOp>>

\* _clean_expired: the list comprehension over self.conversations[user_id]
CleanLoad(t) ==
    LET u == Head(th[t].todo)
        got == GetItem(keys, u)
    IN  /\ th[t].pc = "clean_load"
        /\ keys' = got.keys
        /\ th' = Set(t, [th[t] EXCEPT
                    !.filtered = Unexpired(conv[u], th[t].current_time),
                    !.pc = "clean_store"])
        /\ UNCHANGED <<conv, expiry_minutes, clock, nextMsg, nCalls,
                       log, cleared, quiet, sweepTime, lastOp>>

\* _clean_expired: the assignment self.conversations[user_id] = [...]
CleanStore(t) ==
    LET u == Head(th[t].todo)
        rest == Tail(th[t].todo)
    IN  /\ th[t].pc = "clean_store"
        /\ keys' = IF InKeys(keys, u) THEN keys ELSE Append(keys, u)
        /\ conv' = [conv EXCEPT ![u] = th[t].filtered]
        /\ th' = [Invalidate(th, u, t) EXCEPT
                     ![t] = IF rest = <<>>
                            THEN [th[t] EXCEPT !.todo = rest, !.filtered = <<>>,
                                     !.current_time = 0, !.pc = "append_load"]
                            ELSE [th[t] EXCEPT !.todo = rest, !.filtered = <<>>,
                                     !.pc = "clean_load"]]
        /\ sweepTime' = IF rest = <<>> THEN th[t].current_time ELSE sweepTime
        /\ UNCHANGED <<expiry_minutes, clock, nextMsg, nCalls, log,
                       cleared, quiet, lastOp>>

\* add_message: self.conversations[user_id] of the append statement
AppendLoad(t) ==
    LET u == th[t].user_id
        got == GetItem(keys, u)
    IN  /\ th[t].pc = "append_load"
        /\ keys' = got.keys
        /\ th' = Set(t, [th[t] EXCEPT !.ref = "live", !.pc = "append_now"])
        /\ UNCHANGED <<conv, expiry_minutes, clock, nextMsg, nCalls,
                       log, cleared, quiet, sweepTime, lastOp>>

\* add_message: 'timestamp': datetime.now()
AppendNow(t) ==
    /\ th[t].pc = "append_now"
    /\ th' = Set(t, [th[t] EXCEPT !.timestamp = clock, !.pc = "append_call"])
    /\ UNCHANGED <<keys, conv, expiry_minutes, clock, nextMsg, nCalls,
                   log, cleared, quiet, sweepTime, lastOp>>

\* add_message: the append itself, and what follows it up to the next
\* access to the dictionary: response.text after the user turn, the speech
\* synthesis and the reply after the assistant turn
AppendCall(t) ==
    LET u == th[t].user_id
        turn == Turn(th[t].role,
                     IF th[t].role = "user" THEN th[t].text ELSE ResponseText,
                     th[t].timestamp, th[t].msg)
        after == [th[t] EXCEPT !.ref = "none", !.timestamp = 0,
                     !.adds = @ + 1]
    IN  /\ th[t].pc = "append_call"
        /\ conv' = IF th[t].ref = "live"
                   THEN [conv EXCEPT ![u] = Append(@, turn)]
                   ELSE conv
        /\ log' = [log EXCEPT ![u] = Append(@, turn)]
        /\ quiet' = quiet \ {u}
        /\ IF th[t].role = "user"
           THEN th' = Set(t, IF th[t].response = "notext"
                             THEN [after EXCEPT !.failed = TRUE,
                                      !.reply = "error", !.pc = "done"]
                             ELSE [after EXCEPT !.role = "assistant",
                                      !.pc = "clean_begin"])
           ELSE \E spoken \in BOOLEAN :
                   th' = Set(t, [after EXCEPT !.pc = "done",
                                    !.reply = IF spoken THEN "response"
                                              ELSE "error"])
        /\ UNCHANGED <<keys, expiry_minutes, clock, nextMsg, nCalls, cleared,
                       sweepTime, lastOp>>

\* the handler returns
Return(t) ==
    /\ th[t].pc = "done"
    /\ th' = Set(t, Idle)
    /\ UNCHANGED <<keys, conv, expiry_minutes, clock, nextMsg, nCalls,
                   log, cleared, quiet, sweepTime, lastOp>>

SeqNext ==
    \/ Tick
    \/ \E t \in SeqThreads : handle_text(t)
    \/ \E t \in SeqThreads : handle_audio(t)
    \/ \E t \in SeqThreads : ClearCheck(t)
    \/ \E t \in SeqThreads : ClearDel(t)
    \/ \E t \in SeqThreads : Generate(t)
    \/ \E t \in SeqThreads : CleanBegin(t)
    \/ \E t \in SeqThreads : CleanLoad(t)
    \/ \E t \in SeqThreads : CleanStore(t)
    \/ \E t \in SeqThreads : AppendLoad(t)
    \/ \E t \in SeqThreads : AppendNow(t)
    \/ \E t \in SeqThreads : AppendCall(t)
    \/ \E t \in SeqThreads : Return(t)

Next ==
    \/ Tick
    \/ \E t \in Threads : handle_text(t)
    \/ \E t \in Threads : handle_audio(t)
    \/ \E t \in Threads : ClearCheck(t)
    \/ \E t \in Threads : ClearDel(t)
    \/ \E t \in Threads : Generate(t)
    \/ \E t \in Threads : CleanBegin(t)
    \/ \E t \in Threads : CleanLoad(t)
    \/ \E t \in Threads : CleanStore(t)
    \/ \E t \in Threads : AppendLoad(t)
    \/ \E t \in Threads : AppendNow(t)
    \/ \E t \in Threads : AppendCall(t)
    \/ \E t \in Threads : Return(t)

SeqSpec == Init /\ [][SeqNext]_vars

Spec == Init /\ [][Next]_vars

(***************************************************************************)
(* Properties.                                                             *)
(***************************************************************************)
Range(msgs) == {msgs[i] : i \in DOMAIN msgs}

Occurrences(msgs, turn) == Cardinality({j \in DOMAIN msgs : msgs[j] = turn})

Expected(msgs) ==
    [i \in DOMAIN msgs |-> [role |-> msgs[i].role, content |-> msgs[i].content]]

AllFresh(msgs) ==
    \A i \in DOMAIN msgs : clock - msgs[i].timestamp < expiry_minutes

ClearVariants == {ClearCommand, ClearUpper, ClearMixed}

\* C1: when generate_gemini_response fails (generate_content raises, or
\* response.text cannot be obtained), the history of the user is the one
\* the call started from: no turn was recorded.  Stated at the return of
\* the handler, one message handled at a time.
C1_FailedGenerationRecordsNothing ==
    \A t \in SeqThreads :
        (th[t].pc = "done" /\ th[t].failed)
            => get_history(th[t].user_id) = th[t].history

\* C2: with handlers running concurrently, every turn whose add_message has
\* returned and that is younger than the expiry window is exactly once in
\* the history of its user (users for which clear_history ran are left out).
C2_NoAppendLost ==
    \A u \in Users \ cleared :
        \A i \in DOMAIN log[u] :
            clock - log[u][i].timestamp < expiry_minutes
                => Occurrences(conv[u], log[u][i]) = 1

C4_HistoryIsWhatWasAdded ==
    (lastOp.op = "get" /\ lastOp.user \notin cleared
        /\ AllFresh(log[lastOp.user]))
        => lastOp.ret = Expected(log[lastOp.user])

C4_Witness ==
    /\ lastOp.op = "get" /\ lastOp.user \notin cleared
    /\ AllFresh(log[lastOp.user])
    /\ Len(lastOp.ret) = 2
    /\ lastOp.ret[1].role = "user" /\ lastOp.ret[2].role = "assistant"
    /\ lastOp.ret[1].content # lastOp.ret[2].content
    /\ DOMAIN lastOp.ret[1] = {"role", "content"}

C7_ClearUnknownIsNoOp ==
    [][ (lastOp'.op = "clear" /\ nCalls' = nCalls + 1
            /\ ~InKeys(keys, lastOp'.user))
          => /\ ~lastOp'.raised
             /\ \A v \in Users \ {lastOp'.user} : conv'[v] = conv[v] ]_vars

C7_Witness ==
    /\ lastOp.op = "clear" /\ ~lastOp.known /\ ~lastOp.raised
    /\ \E v \in Users \ {lastOp.user} : Len(conv[v]) = 2

\* C8: get_history for a user never seen returns the empty sequence without
\* raising and changes the history of no user; a user for which nothing was
\* added keeps an empty history through every later call.
C8_GetUnknownIsEmpty ==
    [][ /\ \A v \in Users : log'[v] = <<>> => get_history(v)' = <<>>
        /\ (lastOp'.op = "get" /\ nCalls' = nCalls + 1
               /\ ~InKeys(keys, lastOp'.user))
             => /\ ~lastOp'.raised
                /\ lastOp'.ret = <<>>
                /\ \A v \in Users : get_history(v)' = get_history(v) ]_vars

C8_Witness ==
    /\ lastOp.op = "get" /\ ~lastOp.known /\ ~lastOp.raised
    /\ lastOp.ret = <<>>
    /\ InKeys(keys, lastOp.user)
    /\ \E v \in Users \ {lastOp.user} : conv[v] # <<>>

\* C9: the user turn and the assistant turn appended by one call of
\* generate_gemini_response are adjacent in the history, user first, also
\* when two messages of the user are handled by overlapping dispatches.
C9_PairAdjacent ==
    \A u \in Users : \A i, j \in DOMAIN conv[u] :
        (conv[u][i].call = conv[u][j].call
            /\ conv[u][i].role = "user" /\ conv[u][j].role = "assistant")
            => j = i + 1

\* C10: once clear_history(u) has returned, the history of u is empty until
\* an add_message(u, ...) appends; no sweep brings back earlier turns.
C10_ClearedStaysEmpty ==
    \A u \in quiet : get_history(u) = <<>>

====
